---- MODULE Spec2Model ----
(***************************************************************************)
(* Model of the Spokestack text-to-speech provider                         *)
(* (homeassistant/components/spokestack/tts.py and const.py).              *)
(*                                                                         *)
(* One provider object is constructed from a validated configuration and   *)
(* then serves calls of async_get_tts_audio.  A call is a coroutine; the   *)
(* model has one control position per await of the coroutine:              *)
(*                                                                         *)
(*   "post"       await websession.post(...)            tts.py:102         *)
(*   "post_text"  await response.text()                 tts.py:110         *)
(*   "post_json"  await response.json()                 tts.py:114         *)
(*   "get"        await websession.get(stream_url)      tts.py:168         *)
(*   "get_text"   await response.text()                 tts.py:174         *)
(*   "get_chunks" async for ... iter_chunks()           tts.py:178         *)
(*                                                                         *)
(* Time is discrete.  `now` counts the ticks since the outer               *)
(* async_timeout.timeout(10) block (tts.py:101) was entered; `getStart` is *)
(* the tick at which the inner block (tts.py:167) was entered.             *)
(* HMAC signing (_sign) has no failure path and does not influence control *)
(* flow; it is not modelled.                                               *)
(***************************************************************************)
EXTENDS Integers, Sequences, FiniteSets, TLC

VARIABLES
    config,      \* the validated configuration handed to __init__
    pc,          \* control position of the call ("idle" when none is running)
    message,     \* argument `message` of the running call
    options,     \* argument `options` after `options or {}`
    body,        \* the dict serialised by _request_body
    method,      \* the GraphQL operation name returned by _request_body
    now,         \* ticks since the outer timeout block was entered
    getStart,    \* tick at which the inner timeout block was entered
    nPost,       \* POST requests issued by the running call
    nGet,        \* GET requests issued by the running call
    postStatus,  \* status of the submit response (0: none yet)
    respBody,    \* parsed JSON body of the submit response
    streamUrl,   \* value returned by _get_stream_url
    getStatus,   \* status of the download response (0: none yet)
    arrived,     \* chunks of the download body delivered so far
    audio,       \* `data` of async_get_tts_audio, then `audio` of _read_stream
    result,      \* how the call ended: a returned pair or a raised exception
    fault        \* what went wrong on the wire, and in which step

vars == <<config, pc, message, options, body, method, now, getStart, nPost,
          nGet, postStatus, respBody, streamUrl, getStatus, arrived, audio,
          result, fault>>

-----------------------------------------------------------------------------
(* Bounds of the model *)

MaxChunks == 2

-----------------------------------------------------------------------------
(* const.py *)

NoneStr == "<None>"          \* Python None in a position that holds a str

DEFAULT_MODE == "text"
DEFAULT_VOICE == "demo-male"

GRAPHQL_METHODS ==
    [m \in {"markdown", "ssml", "text"} |->
        CASE m = "markdown" -> "synthesizeMarkdown"
          [] m = "ssml"     -> "synthesizeSsml"
          [] m = "text"     -> "synthesizeText"]

HTTP_OK == 200
TIMEOUT == 10

-----------------------------------------------------------------------------
(* Python dicts with str keys and str values: functions on a set of keys *)

EmptyDict == [k \in {} |-> ""]

\* dict.get(key, default)
DictGet(d, key, default) == IF key \in DOMAIN d THEN d[key] ELSE default

\* the dict display {k1: v1, k2: v2}: a later equal key replaces the earlier
DictLiteral2(k1, v1, k2, v2) ==
    [k \in {k1, k2} |-> IF k = k2 THEN v2 ELSE v1]

-----------------------------------------------------------------------------
(* JSON values of a response body *)

JNull == [t |-> "null"]
JStr(s) == [t |-> "str", s |-> s]
JObj(f) == [t |-> "obj", f |-> f]
JField(k, v) == [x \in {k} |-> v]

\* Python truthiness of a decoded JSON value (`not stream_url`)
Truthy(v) ==
    CASE v.t = "null" -> FALSE
      [] v.t = "str"  -> v.s # ""
      [] v.t = "obj"  -> DOMAIN v.f # {}

-----------------------------------------------------------------------------
(* Results of a call *)

NoneBytes == [isNone |-> TRUE, bytes |-> <<>>]
Bytes(b) == [isNone |-> FALSE, bytes |-> b]

Returned(fmt, data) == [kind |-> "return", fmt |-> fmt, audio |-> data, exc |-> ""]
Raised(exc) == [kind |-> "raise", fmt |-> NoneStr, audio |-> NoneBytes, exc |-> exc]
NoResult == [kind |-> "none", fmt |-> NoneStr, audio |-> NoneBytes, exc |-> ""]

\* `return None, None`
Failure == Returned(NoneStr, NoneBytes)

NoFault == [kind |-> "none", step |-> "none"]

\* `resp_body` before response.json() has delivered anything
NoBody == [t |-> "unread"]

-----------------------------------------------------------------------------
(* SpokestackProvider._request_body *)

\* The value handed to json.dumps and the operation name.  The GraphQL
\* document is represented by the two names interpolated into it.
RequestBody(msg, opts) ==
    LET voice == DictGet(opts, "voice", DEFAULT_VOICE)
        mode  == DictGet(opts, "mode", DEFAULT_MODE)
        meth  == DictGet(GRAPHQL_METHODS, mode, NoneStr)
    IN  [body   |-> [query     |-> [method |-> meth, mode |-> mode],
                     variables |-> DictLiteral2("voice", voice, mode, msg)],
         method |-> meth]

-----------------------------------------------------------------------------
(* SpokestackProvider._get_stream_url *)

\* value.get(key, default) on a decoded JSON value: only a dict has .get,
\* anything else raises AttributeError (ok = FALSE)
PyGet(r, key, default) ==
    IF ~r.ok THEN r
    ELSE IF r.val.t = "obj"
         THEN [ok |-> TRUE, val |-> DictGet(r.val.f, key, default)]
         ELSE [ok |-> FALSE, val |-> JNull]

\* response.get("data", {}).get(method, {}).get("url")
GetStreamUrl(response, meth) ==
    PyGet(PyGet(PyGet([ok |-> TRUE, val |-> response],
                      "data", JObj(EmptyDict)),
                meth, JObj(EmptyDict)),
          "url", JNull)

-----------------------------------------------------------------------------
(* Conditions and steps of async_get_tts_audio and _read_stream *)

\* bug variant: only 4xx and 5xx count as failures of the submit
PostFailed_ErrorClassOnly(status) == status >= 400

\* `response.status != HTTP_OK` in async_get_tts_audio
PostFailed(status) == status # HTTP_OK

\* bug variant: `stream_url is None` instead of `not stream_url`
UrlMissing_NoneOnly(url) == url.t = "null"

\* `not stream_url`
UrlMissing(url) == ~Truthy(url)

\* bug variant: only 4xx and 5xx count as failures of the download
GetFailed_ErrorClassOnly(status) == status >= 400

\* `response.status != HTTP_OK` in _read_stream
GetFailed(status) == status # HTTP_OK

\* bug variant: `audio = data` instead of `audio += data`
Accumulate_Overwrite(acc, data) == data

\* `audio += data`
Accumulate(acc, data) == acc \o data

PostAwaits == {"post", "post_text", "post_json"}
GetAwaits == {"get", "get_text", "get_chunks"}
Awaits == PostAwaits \cup GetAwaits

\* the timer of the outer `async_timeout.timeout(10)` has fired
OuterExpired == pc \in Awaits /\ now >= TIMEOUT

\* the timer of the inner `async_timeout.timeout(10)` has fired
InnerExpired == pc \in GetAwaits /\ now - getStart >= TIMEOUT

-----------------------------------------------------------------------------
(* Inputs *)

Messages == {"Hello world", ""}
OptionVoices == {"", "demo-female"}
OptionModes == {"text", "ssml", "markdown", "voice", "bogus"}

\* every `options` dict over the keys "voice" and "mode" (None becomes {})
OptionDicts ==
    {EmptyDict}
    \cup {JField("voice", v) : v \in OptionVoices}
    \cup {JField("mode", m) : m \in OptionModes}
    \cup {[k \in {"voice", "mode"} |-> IF k = "voice" THEN v ELSE m] :
            v \in OptionVoices, m \in OptionModes}

\* validated configurations: PLATFORM_SCHEMA fills in the defaults
Configs ==
    {[voice |-> v, mode |-> m] :
        v \in {DEFAULT_VOICE, "demo-female"}, m \in {DEFAULT_MODE, "ssml"}}

Statuses == {HTTP_OK, 204, 500}

StreamUrl == "http://stream/1"
OpNames == {GRAPHQL_METHODS[m] : m \in DOMAIN GRAPHQL_METHODS}

\* decoded JSON bodies the synthesis endpoint may answer with
Data(v) == JObj(JField("data", v))
SubmitBodies ==
    {JNull,
     JObj(EmptyDict),
     Data(JNull),
     Data(JStr("error")),
     Data(JObj(EmptyDict)),
     Data(JObj(JField("synthesizeText", JNull))),
     Data(JObj(JField("synthesizeText", JObj(EmptyDict)))),
     Data(JObj(JField("synthesizeText", JObj(JField("url", JNull))))),
     Data(JObj(JField("synthesizeText", JObj(JField("url", JStr(""))))))}
    \cup {Data(JObj(JField(op, JObj(JField("url", JStr(StreamUrl)))))) :
            op \in OpNames}

Chunks == {<<1>>, <<2, 3>>}

-----------------------------------------------------------------------------
(* State machine *)

Idle ==
    /\ pc = "idle"
    /\ message = ""
    /\ options = EmptyDict
    /\ body = RequestBody("", EmptyDict).body
    /\ method = NoneStr
    /\ now = 0
    /\ getStart = 0
    /\ nPost = 0
    /\ nGet = 0
    /\ postStatus = 0
    /\ respBody = NoBody
    /\ streamUrl = JNull
    /\ getStatus = 0
    /\ arrived = <<>>
    /\ audio = <<>>
    /\ result = NoResult
    /\ fault = NoFault

Init ==
    /\ config \in Configs
    /\ Idle

\* the call ends: its result is recorded
Finish(r) ==
    /\ pc' = "done"
    /\ result' = r

\* async_get_tts_audio up to its first await: the body is built and the POST
\* is issued inside the outer timeout block
Call(msg, opts) ==
    /\ pc = "idle"
    /\ LET rb == RequestBody(msg, opts)
       IN  /\ body' = rb.body
           /\ method' = rb.method
    /\ message' = msg
    /\ options' = opts
    /\ audio' = <<>>
    /\ now' = 0
    /\ nPost' = nPost + 1
    /\ pc' = "post"
    /\ UNCHANGED <<config, getStart, nGet, postStatus, respBody, streamUrl,
                   getStatus, arrived, result, fault>>

\* the submit response arrives with its status line
PostResponds(status) ==
    /\ pc = "post"
    /\ ~OuterExpired
    /\ postStatus' = status
    /\ pc' = IF PostFailed(status) THEN "post_text" ELSE "post_json"
    /\ UNCHANGED <<config, message, options, body, method, now, getStart,
                   nPost, nGet, respBody, streamUrl, getStatus, arrived,
                   audio, result, fault>>

\* the error body has been read for the log: `return None, None`
PostTextRead ==
    /\ pc = "post_text"
    /\ ~OuterExpired
    /\ Finish(Failure)
    /\ UNCHANGED <<config, message, options, body, method, now, getStart,
                   nPost, nGet, postStatus, respBody, streamUrl, getStatus,
                   arrived, audio, fault>>

\* response.json() fails on a body that is not JSON: with a JSON content
\* type the decoder's ValueError is raised, which no handler catches
PostJsonMalformed ==
    /\ pc = "post_json"
    /\ ~OuterExpired
    /\ Finish(Raised("ValueError"))
    /\ UNCHANGED <<config, message, options, body, method, now, getStart,
                   nPost, nGet, postStatus, respBody, streamUrl, getStatus,
                   arrived, audio, fault>>

\* response.json() delivers the decoded body; the URL is extracted and,
\* when there is one, the GET is issued inside the inner timeout block
PostJsonRead(json) ==
    /\ pc = "post_json"
    /\ ~OuterExpired
    /\ respBody' = json
    /\ LET url == GetStreamUrl(json, method)
       IN  IF ~url.ok
           THEN /\ Finish(Raised("AttributeError"))
                /\ UNCHANGED <<streamUrl, getStart, nGet, audio>>
           ELSE /\ streamUrl' = url.val
                /\ IF UrlMissing(url.val)
                   THEN /\ Finish(Failure)
                        /\ UNCHANGED <<getStart, nGet, audio>>
                   ELSE /\ pc' = "get"
                        /\ getStart' = now
                        /\ nGet' = nGet + 1
                        /\ audio' = <<>>
                        /\ UNCHANGED result
    /\ UNCHANGED <<config, message, options, body, method, now, nPost,
                   postStatus, getStatus, arrived, fault>>

\* the download response arrives with its status line
GetResponds(status) ==
    /\ pc = "get"
    /\ ~OuterExpired /\ ~InnerExpired
    /\ getStatus' = status
    /\ pc' = IF GetFailed(status) THEN "get_text" ELSE "get_chunks"
    /\ UNCHANGED <<config, message, options, body, method, now, getStart,
                   nPost, nGet, postStatus, respBody, streamUrl, arrived,
                   audio, result, fault>>

\* the error body (chunk c) has been read for the log: _read_stream returns
\* its untouched `audio`, and the call returns "mp3" with it
GetTextRead(c) ==
    /\ pc = "get_text"
    /\ ~OuterExpired /\ ~InnerExpired
    /\ arrived' = <<c>>
    /\ Finish(Returned("mp3", Bytes(audio)))
    /\ UNCHANGED <<config, message, options, body, method, now, getStart,
                   nPost, nGet, postStatus, respBody, streamUrl, getStatus,
                   audio, fault>>

\* one iteration of `async for data, _ in response.content.iter_chunks()`
ChunkArrives(c) ==
    /\ pc = "get_chunks"
    /\ ~OuterExpired /\ ~InnerExpired
    /\ Len(arrived) < MaxChunks
    /\ arrived' = Append(arrived, c)
    /\ audio' = Accumulate(audio, c)
    /\ UNCHANGED <<config, pc, message, options, body, method, now, getStart,
                   nPost, nGet, postStatus, respBody, streamUrl, getStatus,
                   result, fault>>

\* the body is exhausted: _read_stream returns `audio`, the call "mp3", data
EndOfStream ==
    /\ pc = "get_chunks"
    /\ ~OuterExpired /\ ~InnerExpired
    /\ Finish(Returned("mp3", Bytes(audio)))
    /\ UNCHANGED <<config, message, options, body, method, now, getStart,
                   nPost, nGet, postStatus, respBody, streamUrl, getStatus,
                   arrived, audio, fault>>

\* an await raises aiohttp.ClientError (connection or payload error, or the
\* ContentTypeError of response.json()).  Inside _read_stream its own handler
\* returns None and the caller goes on to `return "mp3", data`; elsewhere the
\* handler of async_get_tts_audio returns None, None
ClientError ==
    /\ pc \in Awaits
    /\ ~OuterExpired /\ ~InnerExpired
    /\ fault' = [kind |-> "client_error",
                 step |-> IF pc \in GetAwaits THEN "get" ELSE "post"]
    /\ Finish(IF pc \in GetAwaits THEN Returned("mp3", NoneBytes) ELSE Failure)
    /\ UNCHANGED <<config, message, options, body, method, now, getStart,
                   nPost, nGet, postStatus, respBody, streamUrl, getStatus,
                   arrived, audio>>

\* the outer timer cancels the task; the CancelledError passes the inner
\* block and its handler, the outer block turns it into TimeoutError and the
\* handler of async_get_tts_audio returns None, None
OuterTimeout ==
    /\ OuterExpired
    /\ fault' = [kind |-> "timeout",
                 step |-> IF pc \in GetAwaits THEN "get" ELSE "post"]
    /\ Finish(Failure)
    /\ UNCHANGED <<config, message, options, body, method, now, getStart,
                   nPost, nGet, postStatus, respBody, streamUrl, getStatus,
                   arrived, audio>>

\* the inner timer has fired as well: the inner block turns the cancellation
\* into TimeoutError, the handler of _read_stream returns None and the
\* caller goes on to `return "mp3", data`
InnerTimeout ==
    /\ InnerExpired
    /\ fault' = [kind |-> "timeout", step |-> "get"]
    /\ Finish(Returned("mp3", NoneBytes))
    /\ UNCHANGED <<config, message, options, body, method, now, getStart,
                   nPost, nGet, postStatus, respBody, streamUrl, getStatus,
                   arrived, audio>>

\* a tick passes while the call is suspended and no timer has fired
Tick ==
    /\ pc \in Awaits
    /\ ~OuterExpired /\ ~InnerExpired
    /\ now' = now + 1
    /\ UNCHANGED <<config, pc, message, options, body, method, getStart,
                   nPost, nGet, postStatus, respBody, streamUrl, getStatus,
                   arrived, audio, result, fault>>

\* the caller has taken the result; nothing of the call is kept (the state
\* is that of Idle) and the provider is ready for the next call
Return ==
    /\ pc = "done"
    /\ pc' = "idle"
    /\ message' = ""
    /\ options' = EmptyDict
    /\ body' = RequestBody("", EmptyDict).body
    /\ method' = NoneStr
    /\ now' = 0
    /\ getStart' = 0
    /\ nPost' = 0
    /\ nGet' = 0
    /\ postStatus' = 0
    /\ respBody' = NoBody
    /\ streamUrl' = JNull
    /\ getStatus' = 0
    /\ arrived' = <<>>
    /\ audio' = <<>>
    /\ result' = NoResult
    /\ fault' = NoFault
    /\ UNCHANGED config

Next ==
    \/ \E msg \in Messages, opts \in OptionDicts : Call(msg, opts)
    \/ \E status \in Statuses : PostResponds(status)
    \/ PostTextRead
    \/ PostJsonMalformed
    \/ \E json \in SubmitBodies : PostJsonRead(json)
    \/ \E status \in Statuses : GetResponds(status)
    \/ \E c \in Chunks : GetTextRead(c)
    \/ \E c \in Chunks : ChunkArrives(c)
    \/ EndOfStream
    \/ ClientError
    \/ OuterTimeout
    \/ InnerTimeout
    \/ Tick
    \/ Return

Spec == Init /\ [][Next]_vars

TypeOK ==
    /\ config \in Configs
    /\ pc \in {"idle", "done"} \cup Awaits
    /\ now \in 0..TIMEOUT
    /\ getStart \in 0..TIMEOUT
    /\ Len(arrived) <= MaxChunks

-----------------------------------------------------------------------------
(* Vocabulary of the properties *)

RECURSIVE Concat(_)
\* the concatenation of a sequence of chunks, in order
Concat(chunks) ==
    IF chunks = <<>> THEN <<>> ELSE Head(chunks) \o Concat(Tail(chunks))

\* the decoded body b holds a non-empty string at data.<op>.url
HasUrlAt(b, op) ==
    /\ b.t = "obj"
    /\ "data" \in DOMAIN b.f
    /\ b.f["data"].t = "obj"
    /\ op \in DOMAIN b.f["data"].f
    /\ b.f["data"].f[op].t = "obj"
    /\ "url" \in DOMAIN b.f["data"].f[op].f
    /\ b.f["data"].f[op].f["url"].t = "str"
    /\ b.f["data"].f[op].f["url"].s # ""

\* the decoded body b is an object without a non-empty URL at data.<op>.url:
\* 'data' is absent or null, or <op> is absent or null (always so when op is
\* None), or 'url' is absent, null or empty
LacksUrlAt(b, op) ==
    /\ b.t = "obj"
    /\ \/ "data" \notin DOMAIN b.f
       \/ b.f["data"].t = "null"
       \/ /\ b.f["data"].t = "obj"
          /\ \/ op \notin DOMAIN b.f["data"].f
             \/ b.f["data"].f[op].t = "null"
             \/ /\ b.f["data"].f[op].t = "obj"
                /\ \/ "url" \notin DOMAIN b.f["data"].f[op].f
                   \/ b.f["data"].f[op].f["url"].t = "null"
                   \/ b.f["data"].f[op].f["url"] = JStr("")

\* a request of the running call has failed, or the call has ended in failure
CallFailed ==
    \/ fault # NoFault
    \/ postStatus \notin {0, HTTP_OK}
    \/ getStatus \notin {0, HTTP_OK}
    \/ result.kind = "raise"
    \/ result = Failure

-----------------------------------------------------------------------------
(* Properties *)

\* C1: every call of async_get_tts_audio ends by returning a value; no
\* exception propagates to the caller, whatever the two requests deliver.
C1_NoExceptionPropagates ==
    pc = "done" => result.kind = "return"

\* C2: a timeout or client error at either step, submit or download, makes
\* the call return (None, None); a failed download never yields format "mp3".
C2_TransportFailureReturnsFailure ==
    (pc = "done" /\ fault.kind \in {"timeout", "client_error"})
        => result = Failure

\* C3: when the submit POST is answered with a status other than 200 the call
\* issues no download GET and, once it has ended, has returned (None, None).
C3_SubmitStatusNotOk ==
    (postStatus # 0 /\ postStatus # HTTP_OK)
        => /\ nGet = 0
           /\ pc \in {"post_text", "done"}
           /\ pc = "done" => result = Failure

C3_Witness ==
    /\ pc = "done"
    /\ postStatus = 500
    /\ fault = NoFault
    /\ result = Failure

\* C4: when the submit POST is answered 200 with a JSON body that has no
\* non-empty URL at data.<operationName>.url, the call returns (None, None)
\* and issues no download GET.
C4_MissingUrlReturnsFailure ==
    (/\ pc = "done"
     /\ postStatus = HTTP_OK
     /\ LacksUrlAt(respBody, method))
        => (result = Failure /\ nGet = 0)

C6_AudioIsConcatenation ==
    (pc = "done" /\ getStatus = HTTP_OK /\ fault = NoFault)
        => result = Returned("mp3", Bytes(Concat(arrived)))

C6_Witness ==
    /\ pc = "done"
    /\ getStatus = HTTP_OK
    /\ fault = NoFault
    /\ Len(arrived) = 2
    /\ arrived[1] # arrived[2]
    /\ result = Returned("mp3", Bytes(arrived[1] \o arrived[2]))

\* C7: the voice and the mode of the request come from the caller's options
\* and otherwise from the 'voice' and 'mode' the provider was configured with.
C7_ConfiguredDefaultsUsed ==
    pc # "idle"
        => /\ body.query.mode = DictGet(options, "mode", config.mode)
           /\ body.query.mode # "voice"
                => body.variables["voice"]
                       = DictGet(options, "voice", config.voice)

\* C8: the 'variables' object of the request body holds the message under
\* the mode name and, under 'voice', the resolved voice, which is not empty.
C8_VariablesHoldMessageAndVoice ==
    pc # "idle"
        => LET mode  == DictGet(options, "mode", DEFAULT_MODE)
               voice == DictGet(options, "voice", DEFAULT_VOICE)
           IN  /\ mode \in DOMAIN body.variables
               /\ body.variables[mode] = message
               /\ "voice" \in DOMAIN body.variables
               /\ body.variables["voice"] = voice
               /\ body.variables["voice"] # ""

\* C9: no retries.  A call issues at most one POST and at most one GET, the
\* GET only on reading a 200 submit response with a non-empty stream URL,
\* and no request at all once a request of the call has failed.
C9_NoRetries ==
    [][/\ nPost' <= 1
       /\ nGet' <= 1
       /\ nGet' > nGet
            => /\ pc = "post_json"
               /\ postStatus = HTTP_OK
               /\ HasUrlAt(respBody', method)
       /\ (CallFailed /\ pc' # "idle")
            => (nPost' = nPost /\ nGet' = nGet)]_vars

C9_Witness ==
    /\ pc = "done"
    /\ nPost = 1
    /\ nGet = 1
    /\ fault = [kind |-> "client_error", step |-> "get"]

\* C10: the download has its own 10 ticks, counted from the start of the GET
\* whatever the submit took: a timeout ends the call during the download only
\* when the download itself has lasted 10 ticks.
C10_DownloadHasOwnTimeout ==
    (pc = "done" /\ fault = [kind |-> "timeout", step |-> "get"])
        => now - getStart >= TIMEOUT
====
